---------------------------- MODULE Spec2Model ----------------------------
(***************************************************************************)
(* convert_logging.py: the rewriter of legacy Logger::log calls.           *)
(*                                                                         *)
(* A Python str is a sequence of one-character strings, so that matching,  *)
(* substitution, concatenation and line splitting are computed character   *)
(* by character as the interpreter computes them.                          *)
(***************************************************************************)
EXTENDS Integers, Sequences, FiniteSets, TLC

VARIABLES
    \* ---- one run of the script (specification Spec) ----
    argv,             \* sys.argv[1:], the paths given on the command line
    linesep,          \* os.linesep of the platform the script runs on
    disk,             \* path -> the file's bytes on disk
    perm,             \* path -> "missing" | "noread" | "readonly" | "rw"
    pc,               \* position of the script
    idx,              \* index in argv of the for loop's current filepath
    handles,          \* the file objects currently open, as <<path, mode>>
    lines,            \* process_file's local `lines`
    converted_lines,  \* process_file's local `converted_lines`
    exc,              \* the message of the exception in flight, or the empty string
    stdout,           \* the lines printed so far
    exit_code,        \* the exit status of the process, -1 while it runs
    events,           \* history: the open/read/write/print calls made, in order
    snap,             \* history: `disk` when the current process_file call began
    \* ---- one call of one function (specification LineSpec) ----
    fn,               \* the function called: "none" before the call
    src,              \* how the argument was built (its fragments), for convert_logger_log
    arg,              \* the argument
    ret,              \* the value returned
    ret2              \* the value convert_logger_log returns when given `ret`

dvars == <<argv, linesep, disk, perm, pc, idx, handles, lines, converted_lines,
           exc, stdout, exit_code, events, snap>>
lvars == <<fn, src, arg, ret, ret2>>
vars == <<dvars, lvars>>

---------------------------------------------------------------------------
(* Bounds of the model.                                                    *)

\* fragments concatenated into one input line of LineSpec
MaxFrags == 3
\* command-line paths of one run of Spec
MaxArgs == 2

---------------------------------------------------------------------------
(* String primitives.                                                      *)

\* s[p .. p+Len(lit)-1] = lit
Lit(s, p, lit) ==
    /\ p >= 1
    /\ p + Len(lit) - 1 <= Len(s)
    /\ \A k \in 1..Len(lit) : s[p + k - 1] = lit[k]

\* Python's `sub in s`
Contains(s, sub) == \E p \in 1..(Len(s) + 1) : Lit(s, p, sub)

\* the white space class of a str pattern, on the characters of the model's alphabet
IsSpace(c) == c \in {" ", "\t", "\n", "\r"}

\* the word class of a str pattern, on the characters of the model's alphabet
IsWord(c) ==
    c \in {"a","b","c","d","e","f","g","h","i","j","k","l","m","n","o","p","q",
           "r","s","t","u","v","w","x","y","z","A","B","C","D","E","F","G","H",
           "I","J","K","L","M","N","O","P","Q","R","S","T","U","V","W","X","Y",
           "Z","0","1","2","3","4","5","6","7","8","9","_"}

\* white space from position p: the first position that is not white space
SkipSpace(s, p) ==
    CHOOSE q \in p..(Len(s) + 1) :
        /\ q = Len(s) + 1 \/ ~IsSpace(s[q])
        /\ \A r \in p..(q - 1) : IsSpace(s[r])

\* word characters from position p: the first position that is not a word character
SkipWord(s, p) ==
    CHOOSE q \in p..(Len(s) + 1) :
        /\ q = Len(s) + 1 \/ ~IsWord(s[q])
        /\ \A r \in p..(q - 1) : IsWord(s[r])

\* characters other than a double quote from position p: the first double quote
SkipNotQuote(s, p) ==
    CHOOSE q \in p..(Len(s) + 1) :
        /\ q = Len(s) + 1 \/ s[q] = "\""
        /\ \A r \in p..(q - 1) : s[r] # "\""

Slice(s, a, b) == IF a > b THEN <<>> ELSE SubSeq(s, a, b)

---------------------------------------------------------------------------
(* Literals of the script.                                                 *)

LoggerLog == <<"L","o","g","g","e","r",":",":","l","o","g">>
LogLevelPrefix == <<"L","o","g","L","e","v","e","l",":",":">>
FileMacro == <<"_","_","F","I","L","E","_","_">>
LineMacro == <<"_","_","L","I","N","E","_","_">>
Marker == <<" ","/","/"," ","T","O","D","O",":"," ","C","o","n","v","e","r","t"," ","t","o"," ","s","t","r","u","c","t","u","r","e","d"," ","l","o","g","g","i","n","g">>

---------------------------------------------------------------------------
(* convert_log_level                                                       *)

mapping ==
    (<<"L","o","g","L","e","v","e","l",":",":","D","E","B","U","G">> :> <<"S","L","O","G","_","D","E","B","U","G","(",")">>)
    @@ (<<"L","o","g","L","e","v","e","l",":",":","I","N","F","O">> :> <<"S","L","O","G","_","I","N","F","O","(",")">>)
    @@ (<<"L","o","g","L","e","v","e","l",":",":","W","A","R","N","I","N","G">> :> <<"S","L","O","G","_","W","A","R","N","I","N","G","(",")">>)
    @@ (<<"L","o","g","L","e","v","e","l",":",":","E","R","R","O","R","_","L","E","V","E","L">> :> <<"S","L","O","G","_","E","R","R","O","R","(",")">>)
    @@ (<<"L","o","g","L","e","v","e","l",":",":","C","R","I","T","I","C","A","L">> :> <<"S","L","O","G","_","C","R","I","T","I","C","A","L","(",")">>)

\* a faulty variant: the WARNING entry maps to the default macro
convert_log_level_collide(old_level) ==
    IF old_level \in DOMAIN mapping /\ old_level # <<"L","o","g","L","e","v","e","l",":",":","W","A","R","N","I","N","G">>
    THEN mapping[old_level]
    ELSE <<"S","L","O","G","_","I","N","F","O","(",")">>

\* mapping.get(old_level, 'SLOG_INFO()')
convert_log_level(old_level) ==
    IF old_level \in DOMAIN mapping THEN mapping[old_level] ELSE <<"S","L","O","G","_","I","N","F","O","(",")">>

---------------------------------------------------------------------------
(* The pattern of convert_logger_log.  In order: the name Logger::log;     *)
(* white space; an opening parenthesis; white space; group 1, the text     *)
(* LogLevel:: and one or more word characters; white space; a comma; white *)
(* space; a double quote; group 2, any characters but a double quote; a    *)
(* double quote; optionally white space, a comma, white space, __FILE__,   *)
(* white space, a comma, white space, __LINE__; white space; a closing     *)
(* parenthesis and a semicolon.  All white space is optional.              *)
(*                                                                         *)
(* Every repetition is over a class that excludes the character the        *)
(* pattern requires next (white space before a literal that is not white   *)
(* space, word characters before white space or a comma, no-quote          *)
(* characters before a quote), so giving characters back never turns a     *)
(* failed attempt into a match: the longest repetition is the only         *)
(* candidate.  The optional group is tried first and dropped when the rest *)
(* of the pattern fails after it.                                          *)

NoMatch == [ok |-> FALSE, end |-> 0, level |-> <<>>, message |-> <<>>]

\* white space, closing parenthesis, semicolon from position p: the position
\* after them, or 0
PatternTail(s, p) ==
    LET q == SkipSpace(s, p)
    IN IF Lit(s, q, <<")",";">>) THEN q + 2 ELSE 0

\* the optional group (comma, __FILE__, comma, __LINE__, white space before
\* each) from position p: the position after it, or 0
PatternLocation(s, p) ==
    LET g1 == SkipSpace(s, p)
        g2 == SkipSpace(s, g1 + 1)
        g3 == SkipSpace(s, g2 + Len(FileMacro))
        g4 == SkipSpace(s, g3 + 1)
    IN IF /\ Lit(s, g1, <<",">>)
          /\ Lit(s, g2, FileMacro)
          /\ Lit(s, g3, <<",">>)
          /\ Lit(s, g4, LineMacro)
       THEN g4 + Len(LineMacro)
       ELSE 0

\* pattern.match at position p: whether it matches, the position after the
\* match, group(1) and group(2)
PatternMatchAt(s, p) ==
    LET p1 == p + Len(LoggerLog)             \* Logger::log
        p2 == SkipSpace(s, p1)               \* where the parenthesis must be
        p3 == SkipSpace(s, p2 + 1)           \* where LogLevel:: must be
        p4 == p3 + Len(LogLevelPrefix)
        p5 == SkipWord(s, p4)                \* after the word characters
        p6 == SkipSpace(s, p5)               \* where the comma must be
        p7 == SkipSpace(s, p6 + 1)           \* where the opening quote must be
        p8 == SkipNotQuote(s, p7 + 1)        \* where the closing quote must be
        loc == PatternLocation(s, p8 + 1)
        end == IF loc # 0 /\ PatternTail(s, loc) # 0
               THEN PatternTail(s, loc)
               ELSE PatternTail(s, p8 + 1)
    IN IF /\ Lit(s, p, LoggerLog)
          /\ Lit(s, p2, <<"(">>)
          /\ Lit(s, p3, LogLevelPrefix)
          /\ p5 > p4
          /\ Lit(s, p6, <<",">>)
          /\ Lit(s, p7, <<"\"">>)
          /\ Lit(s, p8, <<"\"">>)
          /\ end # 0
       THEN [ok |-> TRUE, end |-> end,
             level |-> Slice(s, p3, p5 - 1), message |-> Slice(s, p7 + 1, p8 - 1)]
       ELSE NoMatch

---------------------------------------------------------------------------
(* replacer and convert_logger_log                                         *)

\* a faulty variant: the [FAILED]/[ERROR] branch formats the call differently
replacer_tagged(match) ==
    LET macro == convert_log_level(match.level)
    IN IF Contains(match.message, <<"[","F","A","I","L","E","D","]">>) \/ Contains(match.message, <<"[","E","R","R","O","R","]">>)
       THEN macro \o <<".","e","r","r","o","r","(","\"">> \o match.message \o <<"\"",")",";">>
       ELSE macro \o <<".","m","e","s","s","a","g","e","(","\"">> \o match.message \o <<"\"",")",";">>

\* replacer(match): match.level is match.group(1), match.message is match.group(2)
replacer(match) ==
    LET level == match.level
        message == match.message
        macro == convert_log_level(level)
    IN IF Contains(message, <<"[","F","A","I","L","E","D","]">>) \/ Contains(message, <<"[","E","R","R","O","R","]">>)
       THEN macro \o <<".","m","e","s","s","a","g","e","(","\"">> \o message \o <<"\"",")",";">>
       ELSE IF Contains(message, <<"[","O","K","]">>) \/ Contains(message, <<"[","I","N","F","O","]">>)
       THEN macro \o <<".","m","e","s","s","a","g","e","(","\"">> \o message \o <<"\"",")",";">>
       ELSE macro \o <<".","m","e","s","s","a","g","e","(","\"">> \o message \o <<"\"",")",";">>

\* the positions of s the pattern matches at
MatchStarts(s) == {p \in 1..Len(s) : PatternMatchAt(s, p).ok}

\* re.sub from position p on: the text up to the leftmost match at or after p
\* is copied, the match is replaced, and the scan goes on after the match
RECURSIVE SubFrom(_, _)
SubFrom(s, p) ==
    LET later == {q \in MatchStarts(s) : q >= p}
    IN IF later = {} THEN Slice(s, p, Len(s))
       ELSE LET q == CHOOSE a \in later : \A b \in later : a <= b
                m == PatternMatchAt(s, q)
            IN Slice(s, p, q - 1) \o replacer(m) \o SubFrom(s, m.end)

\* a faulty variant: re.sub(pattern, replacer, line, count=1)
ReSub_first(line) ==
    LET starts == MatchStarts(line)
    IN IF starts = {} THEN line
       ELSE LET p == CHOOSE q \in starts : \A r \in starts : q <= r
                m == PatternMatchAt(line, p)
            IN Slice(line, 1, p - 1) \o replacer(m) \o Slice(line, m.end, Len(line))

\* re.sub(pattern, replacer, line)
ReSub(line) == SubFrom(line, 1)

\* a faulty variant: the test for the legacy name is missing
convert_logger_log_nocheck(line) ==
    LET new_line == ReSub(line)
    IN IF new_line = line THEN line \o Marker ELSE new_line

\* a faulty variant: the marker is appended whenever the legacy name is in the line
convert_logger_log_always(line) ==
    LET new_line == ReSub(line)
    IN IF Contains(line, LoggerLog) THEN new_line \o Marker ELSE new_line

convert_logger_log(line) ==
    LET new_line == ReSub(line)
    IN IF Contains(line, LoggerLog) /\ new_line = line
       THEN line \o Marker
       ELSE new_line

---------------------------------------------------------------------------
(* The inputs of LineSpec.  A line is a concatenation of fragments, each a *)
(* legacy call of the shape the pattern describes or a piece of other      *)
(* text, followed by the terminator readlines() leaves on it.              *)

\* the \w+ part of a level token; TRACE is not a key of `mapping`
LevelNames == {<<"D","E","B","U","G">>, <<"I","N","F","O">>, <<"W","A","R","N","I","N","G">>, <<"E","R","R","O","R","_","L","E","V","E","L">>, <<"C","R","I","T","I","C","A","L">>, <<"T","R","A","C","E">>}

\* the strings group(1) can hold
Levels == {LogLevelPrefix \o n : n \in LevelNames}

\* arguments of convert_log_level: the level tokens and other strings
LevelInputs ==
    Levels \cup {<<>>, <<"D","E","B","U","G">>, <<"L","o","g","L","e","v","e","l",":",":","d","e","b","u","g">>, <<"L","o","g","L","e","v","e","l",":",":","E","R","R","O","R">>,
                 <<"L","o","g","L","e","v","e","l",":",":","I","N","F","O"," ">>, <<"S","L","O","G","_","D","E","B","U","G","(",")">>}

\* the strings group(2) can hold: no double quote in them
Messages ==
    {<<>>, <<"d","i","s","k"," ","f","u","l","l">>, <<"[","O","K","]"," ","s","t","a","r","t","e","d">>, <<"[","F","A","I","L","E","D","]"," ","w","r","i","t","e">>, <<"[","E","R","R","O","R","]"," ","e">>,
     <<"[","I","N","F","O","]"," ","u","p">>, <<"a"," ","[","O","K","]"," ","b"," ","[","F","A","I","L","E","D","]">>, <<"L","o","g","g","e","r",":",":","l","o","g">>}

\* white space the pattern tolerates around parentheses and commas
Pads == {<<>>, <<" ">>}

Call(level, message, location, pad) ==
    [kind |-> "call", level |-> level, message |-> message,
     location |-> location, pad |-> pad, text |-> <<>>]

Text(text) ==
    [kind |-> "text", level |-> <<>>, message |-> <<>>,
     location |-> FALSE, pad |-> <<>>, text |-> text]

\* the source text of a fragment
Render(f) ==
    IF f.kind = "call"
    THEN LoggerLog \o f.pad \o <<"(">> \o f.pad \o f.level \o f.pad \o <<",">> \o f.pad
         \o <<"\"">> \o f.message \o <<"\"">>
         \o (IF f.location
             THEN f.pad \o <<",">> \o f.pad \o FileMacro \o f.pad \o <<",">> \o f.pad \o LineMacro
             ELSE <<>>)
         \o f.pad \o <<")",";">>
    ELSE f.text

RECURSIVE RenderAll(_)
RenderAll(fs) ==
    IF fs = <<>> THEN <<>> ELSE Render(Head(fs)) \o RenderAll(Tail(fs))

\* every call the pattern matches, over the levels, messages and paddings
AllCalls ==
    {Call(l, m, loc, pad) : l \in Levels, m \in Messages, loc \in BOOLEAN, pad \in Pads}

\* text that is no legacy call, and legacy calls the pattern does not match:
\* non-literal arguments, an escaped quote in the message, a call cut by the
\* end of the line, a missing semicolon
OtherTexts ==
    {Text(<<" ","x"," ","="," ","1",";"," ">>),
     Text(<<"p","u","t","s","(","\"","h","i","\"",")",";"," ">>),
     Text(<<"L","o","g","g","e","r",":",":","l","o","g","(","s","o","m","e","D","y","n","a","m","i","c","L","e","v","e","l",","," ","g","e","t","M","e","s","s","a","g","e","(",")",")",";">>),
     Text(<<"L","o","g","g","e","r",":",":","l","o","g","(","L","o","g","L","e","v","e","l",":",":","I","N","F","O",","," ","\"","a","\\","\"","b","\"",")",";">>),
     Text(<<"L","o","g","g","e","r",":",":","l","o","g","(","L","o","g","L","e","v","e","l",":",":","W","A","R","N","I","N","G",",">>),
     Text(<<"L","o","g","g","e","r",":",":","l","o","g","(","L","o","g","L","e","v","e","l",":",":","D","E","B","U","G",","," ","\"","x","\"",")">>)}

\* the fragments lines of several fragments are built from
BaseFrags ==
    {Call(<<"L","o","g","L","e","v","e","l",":",":","E","R","R","O","R","_","L","E","V","E","L">>, <<"d","i","s","k"," ","f","u","l","l">>, FALSE, <<>>),
     Call(<<"L","o","g","L","e","v","e","l",":",":","I","N","F","O">>, <<"[","O","K","]"," ","s","t","a","r","t","e","d">>, TRUE, <<" ">>),
     Call(<<"L","o","g","L","e","v","e","l",":",":","T","R","A","C","E">>, <<"L","o","g","g","e","r",":",":","l","o","g">>, FALSE, <<>>)}
    \cup OtherTexts

LineInputs ==
    {<<c>> : c \in AllCalls}
    \cup UNION {[1..n -> BaseFrags] : n \in 1..MaxFrags}

\* what readlines() leaves at the end of a line: "\n", or nothing on a last
\* line that has no newline
Terminators == {<<>>, <<"\n">>}

---------------------------------------------------------------------------
(* LineSpec: one call of convert_log_level, of replacer or of              *)
(* convert_logger_log, and a second call of convert_logger_log on what the *)
(* first returned.                                                         *)

DriverOff ==
    /\ argv = <<>>
    /\ linesep = <<"\n">>
    /\ disk = <<>>
    /\ perm = <<>>
    /\ pc = "off"
    /\ idx = 0
    /\ handles = {}
    /\ lines = <<>>
    /\ converted_lines = <<>>
    /\ exc = ""
    /\ stdout = <<>>
    /\ exit_code = -1
    /\ events = <<>>
    /\ snap = <<>>

LineInit ==
    /\ DriverOff
    /\ fn = "none"
    /\ src = <<>>
    /\ arg = <<>>
    /\ ret = <<>>
    /\ ret2 = <<>>

CallConvertLogLevel ==
    /\ fn = "none"
    /\ \E t \in LevelInputs :
        /\ arg' = t
        /\ ret' = convert_log_level(t)
    /\ fn' = "convert_log_level"
    /\ UNCHANGED <<src, ret2, dvars>>

CallReplacer ==
    /\ fn = "none"
    /\ \E l \in Levels, m \in Messages :
        /\ arg' = [level |-> l, message |-> m]
        /\ ret' = replacer([level |-> l, message |-> m])
    /\ fn' = "replacer"
    /\ UNCHANGED <<src, ret2, dvars>>

CallConvertLoggerLog ==
    /\ fn = "none"
    /\ \E fs \in LineInputs, t \in Terminators :
        /\ src' = fs
        /\ arg' = RenderAll(fs) \o t
        /\ ret' = convert_logger_log(RenderAll(fs) \o t)
    /\ fn' = "convert_logger_log"
    /\ UNCHANGED <<ret2, dvars>>

CallConvertLoggerLogAgain ==
    /\ fn = "convert_logger_log"
    /\ ret2' = convert_logger_log(ret)
    /\ fn' = "convert_logger_log twice"
    /\ UNCHANGED <<src, arg, ret, dvars>>

LineNext ==
    \/ CallConvertLogLevel
    \/ CallReplacer
    \/ CallConvertLoggerLog
    \/ CallConvertLoggerLogAgain

LineSpec == LineInit /\ [][LineNext]_vars

---------------------------------------------------------------------------
(* Text files.  open(filepath, 'r') and open(filepath, 'w') are text mode  *)
(* with universal newlines: reading turns "\r\n" and "\r" into "\n",       *)
(* writing turns "\n" into os.linesep.                                     *)

FirstOf(s, c) == CHOOSE p \in 1..Len(s) : s[p] = c /\ \A q \in 1..(p - 1) : s[q] # c

Has(s, c) == \E p \in 1..Len(s) : s[p] = c

\* the text a read of these bytes returns
RECURSIVE Decode(_)
Decode(bytes) ==
    IF ~Has(bytes, "\r") THEN bytes
    ELSE LET p == FirstOf(bytes, "\r")
             next == IF p < Len(bytes) /\ bytes[p + 1] = "\n" THEN p + 2 ELSE p + 1
         IN Slice(bytes, 1, p - 1) \o <<"\n">> \o Decode(Slice(bytes, next, Len(bytes)))

\* the bytes a write of this text stores
RECURSIVE Encode(_, _)
Encode(text, sep) ==
    IF ~Has(text, "\n") THEN text
    ELSE LET p == FirstOf(text, "\n")
         IN Slice(text, 1, p - 1) \o sep \o Encode(Slice(text, p + 1, Len(text)), sep)

\* a string cut after each "\n", the pieces keeping their "\n"
RECURSIVE SplitKeepEnds(_)
SplitKeepEnds(s) ==
    IF s = <<>> THEN <<>>
    ELSE IF ~Has(s, "\n") THEN <<s>>
    ELSE LET p == FirstOf(s, "\n")
         IN <<Slice(s, 1, p)>> \o SplitKeepEnds(Slice(s, p + 1, Len(s)))

\* f.readlines() of a file holding these bytes
readlines(bytes) == SplitKeepEnds(Decode(bytes))

RECURSIVE Join(_)
Join(ls) == IF ls = <<>> THEN <<>> ELSE Head(ls) \o Join(Tail(ls))

\* the bytes f.writelines(ls) stores
writelines(ls, sep) == Encode(Join(ls), sep)

---------------------------------------------------------------------------
(* The environment of one run.                                             *)

Paths == {"a.cpp", "b.cpp"}

\* a path that does not exist, a file the user may not read, a file the user
\* may read and not write, a file the user may read and write
Perms == {"missing", "noread", "readonly", "rw"}

LineSeps == {<<"\n">>, <<"\r","\n">>}

Contents ==
    {<<>>,
     <<"i","n","t"," ","x",";","\n">>,
     <<"L","o","g","g","e","r",":",":","l","o","g","(","L","o","g","L","e","v","e","l",":",":","E","R","R","O","R","_","L","E","V","E","L",","," ","\"","d","i","s","k"," ","f","u","l","l","\"",")",";","\n","f","o","o","(",")",";","\n">>,
     <<"L","o","g","g","e","r",":",":","l","o","g","(","s","o","m","e","D","y","n","a","m","i","c","L","e","v","e","l",","," ","g","e","t","M","e","s","s","a","g","e","(",")",")",";","\n","f","o","o","(",")",";","\n">>,
     <<"a","(",")",";","\r","\n","L","o","g","g","e","r",":",":","l","o","g","(","L","o","g","L","e","v","e","l",":",":","I","N","F","O",","," ","\"","[","O","K","]"," ","s","t","a","r","t","e","d","\"",","," ","_","_","F","I","L","E","_","_",","," ","_","_","L","I","N","E","_","_",")",";","\r","\n">>,
     <<"x","(",")",";","\n","L","o","g","g","e","r",":",":","l","o","g","(","l","e","v","e","l",","," ","m","s","g","(",")",")",";">>}

\* the message of the OSError open() raises
OpenError(p, mode) ==
    IF perm[p] = "missing" THEN "No such file or directory" ELSE "Permission denied"

LineOff ==
    /\ fn = "none"
    /\ src = <<>>
    /\ arg = <<>>
    /\ ret = <<>>
    /\ ret2 = <<>>

\* the filepath of the for loop
filepath == argv[idx]

---------------------------------------------------------------------------
(* The script: the __main__ block and process_file.                        *)

Init ==
    /\ argv \in UNION {[1..n -> Paths] : n \in 0..MaxArgs}
    /\ linesep \in LineSeps
    /\ perm \in [Paths -> Perms]
    /\ disk \in [Paths -> Contents]
    /\ \A p \in Paths : perm[p] = "missing" => disk[p] = <<>>
    /\ pc = "main"
    /\ idx = 0
    /\ handles = {}
    /\ lines = <<>>
    /\ converted_lines = <<>>
    /\ exc = ""
    /\ stdout = <<>>
    /\ exit_code = -1
    /\ events = <<>>
    /\ snap = disk
    /\ LineOff

\* if len(sys.argv) < 2: print the usage; sys.exit(1)
Usage ==
    /\ pc = "main"
    /\ Len(argv) = 0
    /\ stdout' = Append(stdout, [kind |-> "Usage", path |-> "", cause |-> ""])
    /\ events' = Append(events, <<"print", "Usage", "">>)
    /\ exit_code' = 1
    /\ pc' = "exit"
    /\ UNCHANGED <<argv, linesep, disk, perm, idx, handles, lines,
                   converted_lines, exc, snap, lvars>>

\* the script goes on to the for loop
Start ==
    /\ pc = "main"
    /\ Len(argv) >= 1
    /\ idx' = 1
    /\ pc' = "for"
    /\ UNCHANGED <<argv, linesep, disk, perm, handles, lines, converted_lines,
                   exc, stdout, exit_code, events, snap, lvars>>

\* for filepath in sys.argv[1:]: try: process_file(filepath)
ForNext ==
    /\ pc = "for"
    /\ idx <= Len(argv)
    /\ snap' = disk
    /\ pc' = "open_r"
    /\ UNCHANGED <<argv, linesep, disk, perm, idx, handles, lines,
                   converted_lines, exc, stdout, exit_code, events, lvars>>

\* a faulty variant: the script exits with 1 when a file failed
ForDone_failing ==
    /\ pc = "for"
    /\ idx > Len(argv)
    /\ exit_code' = IF \E k \in 1..Len(stdout) : stdout[k].kind = "Error" THEN 1 ELSE 0
    /\ pc' = "exit"
    /\ UNCHANGED <<argv, linesep, disk, perm, idx, handles, lines,
                   converted_lines, exc, stdout, events, snap, lvars>>

\* the loop is over and the script ends
ForDone ==
    /\ pc = "for"
    /\ idx > Len(argv)
    /\ exit_code' = 0
    /\ pc' = "exit"
    /\ UNCHANGED <<argv, linesep, disk, perm, idx, handles, lines,
                   converted_lines, exc, stdout, events, snap, lvars>>

\* a faulty variant: the file is opened for reading and writing, which truncates it
OpenReadOk_truncating ==
    /\ pc = "open_r"
    /\ perm[filepath] = "rw"
    /\ disk' = [disk EXCEPT ![filepath] = <<>>]
    /\ handles' = handles \cup {<<filepath, "r">>}
    /\ events' = Append(events, <<"open", filepath, "r", "ok">>)
    /\ pc' = "readlines"
    /\ UNCHANGED <<argv, linesep, perm, idx, lines, converted_lines, exc,
                   stdout, exit_code, snap, lvars>>

\* with open(filepath, 'r') as f: the file opens
OpenReadOk ==
    /\ pc = "open_r"
    /\ perm[filepath] \in {"readonly", "rw"}
    /\ handles' = handles \cup {<<filepath, "r">>}
    /\ events' = Append(events, <<"open", filepath, "r", "ok">>)
    /\ pc' = "readlines"
    /\ UNCHANGED <<argv, linesep, disk, perm, idx, lines, converted_lines, exc,
                   stdout, exit_code, snap, lvars>>

\* with open(filepath, 'r') as f: open raises
OpenReadFail ==
    /\ pc = "open_r"
    /\ perm[filepath] \in {"missing", "noread"}
    /\ exc' = OpenError(filepath, "r")
    /\ events' = Append(events, <<"open", filepath, "r", "fail">>)
    /\ pc' = "except"
    /\ UNCHANGED <<argv, linesep, disk, perm, idx, handles, lines,
                   converted_lines, stdout, exit_code, snap, lvars>>

\* lines = f.readlines(), and the with block closes f
ReadLines ==
    /\ pc = "readlines"
    /\ lines' = readlines(disk[filepath])
    /\ handles' = handles \ {<<filepath, "r">>}
    /\ events' = events \o << <<"readlines", filepath>>, <<"close", filepath, "r">> >>
    /\ pc' = "convert"
    /\ UNCHANGED <<argv, linesep, disk, perm, idx, converted_lines, exc, stdout,
                   exit_code, snap, lvars>>

\* converted_lines = []; for line in lines: converted_lines.append(...)
ConvertLines ==
    /\ pc = "convert"
    /\ converted_lines' = [k \in 1..Len(lines) |-> convert_logger_log(lines[k])]
    /\ pc' = "open_w"
    /\ UNCHANGED <<argv, linesep, disk, perm, idx, handles, lines, exc, stdout,
                   exit_code, events, snap, lvars>>

\* with open(filepath, 'w') as f: the file opens, and is truncated
OpenWriteOk ==
    /\ pc = "open_w"
    /\ perm[filepath] = "rw"
    /\ disk' = [disk EXCEPT ![filepath] = <<>>]
    /\ handles' = handles \cup {<<filepath, "w">>}
    /\ events' = Append(events, <<"open", filepath, "w", "ok">>)
    /\ pc' = "writelines"
    /\ UNCHANGED <<argv, linesep, perm, idx, lines, converted_lines, exc, stdout,
                   exit_code, snap, lvars>>

\* with open(filepath, 'w') as f: open raises
OpenWriteFail ==
    /\ pc = "open_w"
    /\ perm[filepath] # "rw"
    /\ exc' = OpenError(filepath, "w")
    /\ events' = Append(events, <<"open", filepath, "w", "fail">>)
    /\ pc' = "except"
    /\ UNCHANGED <<argv, linesep, disk, perm, idx, handles, lines,
                   converted_lines, stdout, exit_code, snap, lvars>>

\* f.writelines(converted_lines), and the with block closes f
WriteLines ==
    /\ pc = "writelines"
    /\ disk' = [disk EXCEPT ![filepath] = writelines(converted_lines, linesep)]
    /\ handles' = handles \ {<<filepath, "w">>}
    /\ events' = events \o << <<"writelines", filepath>>, <<"close", filepath, "w">> >>
    /\ pc' = "print"
    /\ UNCHANGED <<argv, linesep, perm, idx, lines, converted_lines, exc, stdout,
                   exit_code, snap, lvars>>

\* print(f"Processed: {filepath}"); process_file returns and the loop goes on
PrintProcessed ==
    /\ pc = "print"
    /\ stdout' = Append(stdout, [kind |-> "Processed", path |-> filepath, cause |-> ""])
    /\ events' = Append(events, <<"print", "Processed", filepath>>)
    /\ lines' = <<>>
    /\ converted_lines' = <<>>
    /\ idx' = idx + 1
    /\ pc' = "for"
    /\ UNCHANGED <<argv, linesep, disk, perm, handles, exc, exit_code, snap, lvars>>

\* a faulty variant: the exception is not caught and ends the script
HandleException_abort ==
    /\ pc = "except"
    /\ stdout' = Append(stdout, [kind |-> "Error", path |-> filepath, cause |-> exc])
    /\ events' = Append(events, <<"print", "Error", filepath>>)
    /\ exc' = ""
    /\ lines' = <<>>
    /\ converted_lines' = <<>>
    /\ exit_code' = 1
    /\ pc' = "exit"
    /\ UNCHANGED <<argv, linesep, disk, perm, idx, handles, snap, lvars>>

\* except Exception as e: print(f"Error processing {filepath}: {e}"), and the
\* loop goes on
HandleException ==
    /\ pc = "except"
    /\ stdout' = Append(stdout, [kind |-> "Error", path |-> filepath, cause |-> exc])
    /\ events' = Append(events, <<"print", "Error", filepath>>)
    /\ exc' = ""
    /\ lines' = <<>>
    /\ converted_lines' = <<>>
    /\ idx' = idx + 1
    /\ pc' = "for"
    /\ UNCHANGED <<argv, linesep, disk, perm, handles, exit_code, snap, lvars>>

Next ==
    \/ Usage
    \/ Start
    \/ ForNext
    \/ ForDone
    \/ OpenReadOk
    \/ OpenReadFail
    \/ ReadLines
    \/ ConvertLines
    \/ OpenWriteOk
    \/ OpenWriteFail
    \/ WriteLines
    \/ PrintProcessed
    \/ HandleException

Spec == Init /\ [][Next]_vars

---------------------------------------------------------------------------
(* Claims about the functions (specification LineSpec).                    *)

Converted == fn \in {"convert_logger_log", "convert_logger_log twice"}

EndsWith(s, suffix) == Lit(s, Len(s) - Len(suffix) + 1, suffix)

\* the pattern matches somewhere in s
MatchesSomewhere(s) == MatchStarts(s) # {}

\* the macro the documentation gives for a level token
ExpectedMacro(t) ==
    CASE t = <<"L","o","g","L","e","v","e","l",":",":","D","E","B","U","G">> -> <<"S","L","O","G","_","D","E","B","U","G","(",")">>
      [] t = <<"L","o","g","L","e","v","e","l",":",":","I","N","F","O">> -> <<"S","L","O","G","_","I","N","F","O","(",")">>
      [] t = <<"L","o","g","L","e","v","e","l",":",":","W","A","R","N","I","N","G">> -> <<"S","L","O","G","_","W","A","R","N","I","N","G","(",")">>
      [] t = <<"L","o","g","L","e","v","e","l",":",":","E","R","R","O","R","_","L","E","V","E","L">> -> <<"S","L","O","G","_","E","R","R","O","R","(",")">>
      [] t = <<"L","o","g","L","e","v","e","l",":",":","C","R","I","T","I","C","A","L">> -> <<"S","L","O","G","_","C","R","I","T","I","C","A","L","(",")">>
      [] OTHER -> <<"S","L","O","G","_","I","N","F","O","(",")">>

RecognizedLevels ==
    {<<"L","o","g","L","e","v","e","l",":",":","D","E","B","U","G">>, <<"L","o","g","L","e","v","e","l",":",":","I","N","F","O">>, <<"L","o","g","L","e","v","e","l",":",":","W","A","R","N","I","N","G">>,
     <<"L","o","g","L","e","v","e","l",":",":","E","R","R","O","R","_","L","E","V","E","L">>, <<"L","o","g","L","e","v","e","l",":",":","C","R","I","T","I","C","A","L">>}

\* the replacement the documentation gives for a call
ExpectedCall(level, message) ==
    ExpectedMacro(level) \o <<".","m","e","s","s","a","g","e","(","\"">> \o message \o <<"\"",")",";">>

\* a line's fragments with every call replaced and every other fragment kept
RECURSIVE ExpectedAll(_)
ExpectedAll(fs) ==
    IF fs = <<>> THEN <<>>
    ELSE (IF Head(fs).kind = "call"
          THEN ExpectedCall(Head(fs).level, Head(fs).message)
          ELSE Head(fs).text) \o ExpectedAll(Tail(fs))

CallsIn(fs) == {k \in 1..Len(fs) : fs[k].kind = "call"}

\* the terminator the line was given: what follows the fragments in `arg`
TerminatorOf(fs, line) == Slice(line, Len(RenderAll(fs)) + 1, Len(line))

\* a legacy call name outside a string literal: an even number of double
\* quotes before it
HasLegacyCall(s) ==
    \E p \in 1..Len(s) :
        /\ Lit(s, p, LoggerLog)
        /\ Cardinality({q \in 1..(p - 1) : s[q] = "\""}) % 2 = 0

\* C2: convert_logger_log appends the review marker if and only if the line
\* contains 'Logger::log' and the pattern matches nowhere in it; the result is
\* then the line unchanged followed by the marker; a line without
\* 'Logger::log' is returned byte-identical.
C2_MarkerIffNameUnmatched ==
    Converted =>
        LET flagged == Contains(arg, LoggerLog) /\ ~MatchesSomewhere(arg)
        IN /\ flagged => ret = arg \o Marker
           /\ ~flagged => ~EndsWith(ret, Marker)
           /\ ~Contains(arg, LoggerLog) => ret = arg

C2_Witness ==
    /\ fn = "convert_logger_log"
    /\ Contains(arg, LoggerLog)
    /\ ~MatchesSomewhere(arg)
    /\ EndsWith(arg, <<"\n">>)
    /\ ret = arg \o Marker

\* C3: if the output of convert_logger_log still holds an unconverted
\* Logger::log call, the output carries the review marker, also when another
\* call of the same line was rewritten.
C3_UnconvertedCallIsMarked ==
    Converted => (HasLegacyCall(ret) => Contains(ret, Marker))

\* C4 as stated: a line in which convert_logger_log rewrote a call is returned
\* unchanged by a second call.
C4_SecondPassIsNoOp ==
    (fn = "convert_logger_log twice" /\ MatchesSomewhere(arg)) => ret2 = ret

\* C4 as amended: for a line in which convert_logger_log rewrote a call, the
\* second call returns its argument unchanged exactly when that argument no
\* longer contains 'Logger::log'.
C4_SecondPassNoOpIffNameGone ==
    (fn = "convert_logger_log twice" /\ MatchesSomewhere(arg)) =>
        (ret2 = ret <=> ~Contains(ret, LoggerLog))

C4_Witness ==
    /\ fn = "convert_logger_log twice"
    /\ Cardinality(CallsIn(src)) >= 2
    /\ ret # arg
    /\ ret2 = ret

\* C5: every call of the line that fits the pattern is replaced by
\* <macro of its level>.message(<its message, quoted>); without the __FILE__,
\* __LINE__ suffix, and the text before, between and after is kept in order.
C5_EveryCallRewrittenTextKept ==
    (Converted /\ CallsIn(src) # {}) =>
        ret = ExpectedAll(src) \o TerminatorOf(src, arg)

C5_Witness ==
    /\ fn = "convert_logger_log"
    /\ Len(src) = 3
    /\ src[1].kind = "call" /\ src[1].location
    /\ src[2].kind = "text" /\ ~Contains(src[2].text, LoggerLog)
    /\ src[3].kind = "call" /\ src[3].level # src[1].level
    /\ ret = ExpectedAll(src) \o <<"\n">>

\* C6: convert_log_level gives the five recognized tokens their five macro
\* names, pairwise distinct, and SLOG_INFO() for every other string.
C6_LevelTable ==
    /\ fn = "convert_log_level" => ret = ExpectedMacro(arg)
    /\ \A a, b \in RecognizedLevels :
        a # b => convert_log_level(a) # convert_log_level(b)

C6_Witness ==
    /\ fn = "convert_log_level"
    /\ arg \notin RecognizedLevels
    /\ arg # <<>>
    /\ ret = <<"S","L","O","G","_","I","N","F","O","(",")">>

\* C9: the replacement is <macro>.message(<message, quoted>); whatever tags the
\* message holds, the macro being chosen by the level token alone.
C9_ReplacementIgnoresTags ==
    fn = "replacer" => ret = ExpectedCall(arg.level, arg.message)

C9_Witness ==
    /\ fn = "replacer"
    /\ Contains(arg.message, <<"[","F","A","I","L","E","D","]">>)
    /\ Contains(arg.message, <<"[","O","K","]">>)
    /\ arg.level = <<"L","o","g","L","e","v","e","l",":",":","C","R","I","T","I","C","A","L">>
    /\ ret = <<"S","L","O","G","_","C","R","I","T","I","C","A","L","(",")",".","m","e","s","s","a","g","e","(","\"","a"," ","[","O","K","]"," ","b"," ","[","F","A","I","L","E","D","]","\"",")",";">>

---------------------------------------------------------------------------
(* Claims about a run of the script (specification Spec).                  *)

\* the bytes of a file cut into lines, each with its terminator
DiskLines(bytes) == SplitKeepEnds(bytes)

\* the terminator at the end of a line of a file
TerminatorAt(l) ==
    IF EndsWith(l, <<"\r","\n">>) THEN <<"\r","\n">>
    ELSE IF EndsWith(l, <<"\n">>) THEN <<"\n">>
    ELSE <<>>

\* a line of a file without its terminator
BodyOf(l) == Slice(l, 1, Len(l) - Len(TerminatorAt(l)))

\* the line with the review marker at its end, before the terminator
Flagged(l) == BodyOf(l) \o Marker \o TerminatorAt(l)

IsOpenForRead(e) == e[1] = "open" /\ e[3] = "r"

\* the paths open(path, 'r') was called with, in order
ReadOpens == SelectSeq(events, IsOpenForRead)

\* C1: once process_file has read and written a file, the file has as many
\* lines as before, and its line k is line k of the input, byte-identical, or
\* with its legacy calls rewritten, or with the review marker appended at
\* the end of that line; each line keeps its terminator.
C1_LinesKeptInPlace ==
    pc = "print" =>
        LET before == DiskLines(snap[filepath])
            after == DiskLines(disk[filepath])
        IN /\ Len(after) = Len(before)
           /\ \A k \in 1..Len(before) :
                \/ after[k] = before[k]
                \/ after[k] = ReSub(before[k])
                \/ after[k] = Flagged(before[k])

\* C7: a run given one or more paths opens every path once, in the order
\* given, whichever of them fail, and prints one line per path: Processed for
\* a path it rewrote, Error with the cause for any other.
C7_EveryPathAttemptedAndReported ==
    /\ (pc \in {"for", "exit"} /\ Len(argv) >= 1) =>
        /\ Len(stdout) = idx - 1
        /\ Len(ReadOpens) = idx - 1
        /\ \A k \in 1..(idx - 1) :
            /\ ReadOpens[k][2] = argv[k]
            /\ stdout[k].path = argv[k]
            /\ stdout[k].kind = (IF perm[argv[k]] = "rw" THEN "Processed" ELSE "Error")
            /\ stdout[k].kind = "Error" => stdout[k].cause # ""
    /\ (pc = "exit" /\ Len(argv) >= 1) => idx = Len(argv) + 1

C7_Witness ==
    /\ pc = "exit"
    /\ Len(argv) = 2
    /\ stdout[1].kind = "Error"
    /\ stdout[2].kind = "Processed"
    /\ disk[argv[2]] # snap[argv[2]]

\* C8: the script exits with 1, having printed the usage and opened no file,
\* exactly when no path is given; given paths it exits with 0 however many
\* of them failed.
C8_ExitCode ==
    pc = "exit" =>
        /\ exit_code = 1 <=> Len(argv) = 0
        /\ Len(argv) = 0 =>
            /\ Len(stdout) = 1 /\ stdout[1].kind = "Usage"
            /\ ReadOpens = <<>>
        /\ Len(argv) >= 1 => exit_code = 0

C8_Witness ==
    /\ pc = "exit"
    /\ Len(argv) = 2
    /\ \A k \in 1..2 : stdout[k].kind = "Error"
    /\ exit_code = 0

\* C10: a process_file call that fails at an open leaves the disk as it was
\* when the call began and prints no Processed line; the file is open for
\* writing only after it was read to the end, closed, and every line was
\* converted; Processed is printed only after the write and the close.
C10_FailedJobLeavesFile ==
    /\ pc = "except" => disk = snap
    /\ \A p \in Paths :
        <<p, "w">> \in handles =>
            /\ <<p, "r">> \notin handles
            /\ lines = readlines(snap[p])
            /\ Len(converted_lines) = Len(lines)
    /\ disk # snap => pc \in {"writelines", "print", "for", "exit"}
    /\ \A n \in 1..Len(events) :
        /\ (events[n][1] = "print" /\ events[n][2] = "Processed") =>
            /\ n > 2
            /\ events[n - 1] = <<"close", events[n][3], "w">>
            /\ events[n - 2] = <<"writelines", events[n][3]>>
        /\ (events[n][1] = "open" /\ events[n][4] = "fail" /\ n < Len(events)) =>
            events[n + 1] = <<"print", "Error", events[n][2]>>

C10_Witness ==
    /\ pc = "except"
    /\ perm[filepath] = "readonly"
    /\ Contains(disk[filepath], LoggerLog)
    /\ Len(converted_lines) = 2
    /\ converted_lines # lines

=============================================================================
